---- MODULE Spec2Model ----
(***************************************************************************)
(* CloudWatch RUM metrics destination resource                             *)
(* (internal/service/rum/metrics_destination.go): the put, read and delete *)
(* handlers on one resource data object d, and the lookup by monitor name. *)
(*                                                                         *)
(* Strings are modelled as naturals, 0 being the empty string "".  A       *)
(* *string of the SDK is Nil or a string.                                  *)
(*                                                                         *)
(* The remote service is a store of destination records; a record is       *)
(* identified by the fields the delete request carries: monitor name,      *)
(* destination and destination ARN.  A remote call that fails changes      *)
(* nothing.  The list call inside the put handler may not see the put yet. *)
(*                                                                         *)
(* The engine creates when d has no identifier, and updates, refreshes and *)
(* deletes when it has one; after a Delete that returned no error it runs  *)
(* no handler on the identifier but a refresh.                             *)
(*                                                                         *)
(* tfresource.NotFound is modelled from the specification's error          *)
(* taxonomy: true of the not-found and the empty-result error only.        *)
(***************************************************************************)
EXTENDS Integers, Sequences, FiniteSets, TLC

\* ---------------------------------------------------------------- bounds
NumNames == 2
NumArns == 1
MaxRemote == 2
MaxPages == 2
MaxPageLen == 2

\* ------------------------------------------------------------ value sets
Empty == 0
Nil == -1

Names == 1..NumNames
Arns == 1..NumArns
MetricDestination_Values == {"CloudWatch", "Evidently"}

\* The attribute values a configuration gives d (an unset optional string
\* attribute reads as "").
Configs ==
    [app_monitor_name : Names,
     destination : MetricDestination_Values,
     destination_arn : {Empty} \cup Arns,
     iam_role_arn : {Empty} \cup Arns]

NoAttrs ==
    [app_monitor_name |-> Empty, destination |-> "",
     destination_arn |-> Empty, iam_role_arn |-> Empty]

\* ----------------------------------------------------------------- errors
NoErr == [kind |-> "nil", code |-> "", count |-> 0]
AwsErr(code) == [kind |-> "awserr", code |-> code, count |-> 0]

ErrCodeResourceNotFoundException == "ResourceNotFoundException"
\* The error codes a remote call answers with: the service's not-found, and the
\* cancellation of the request's context (the handlers tell no error other than
\* not-found apart).
ErrCodes == {ErrCodeResourceNotFoundException, "RequestCanceled"}
RemoteErrs == {NoErr} \cup {AwsErr(c) : c \in ErrCodes}

ErrCodeEquals(err, code) == err.kind = "awserr" /\ err.code = code

NewEmptyResultError == [kind |-> "EmptyResultError", code |-> "", count |-> 0]
NewTooManyResultsError(count) == [kind |-> "TooManyResultsError", code |-> "", count |-> count]
RetryNotFoundError(err) == [kind |-> "NotFoundError", code |-> err.code, count |-> 0]

\* tfresource.NotFound: the lookup's two not-found outcomes, and no other error.
NotFound(err) == err.kind \in {"NotFoundError", "EmptyResultError"}

\* ------------------------------------------------------------ conversions
\* d.GetOk + aws.String: an attribute with the zero value is not sent.
GetOkString(v) == IF v # Empty THEN v ELSE Nil
\* d.Set with a *string: a nil pointer sets the zero value.
SetString(p) == IF p = Nil THEN Empty ELSE p

\* ---------------------------------------------------------- remote service
\* A *MetricDestinationSummary: the nil pointer, or a summary.
NilSummary ==
    [isNil |-> TRUE, Destination |-> "", DestinationArn |-> Nil, IamRoleArn |-> Nil]
Summary(destination, destinationArn, iamRoleArn) ==
    [isNil |-> FALSE, Destination |-> destination, DestinationArn |-> destinationArn,
     IamRoleArn |-> iamRoleArn]

RemoteKey(r) == <<r.AppMonitorName, r.Destination, r.DestinationArn>>

\* PutRumMetricsDestination creates the record or replaces the one with its key.
RemotePut(store, input) ==
    {r \in store : RemoteKey(r) # RemoteKey(input)} \cup {input}

\* DeleteRumMetricsDestination removes the record the request identifies.
RemoteDelete(store, input) ==
    {r \in store : RemoteKey(r) # RemoteKey(input)}

\* What ListRumMetricsDestinations holds for a monitor: the summaries, which do
\* not carry the monitor's name.
RemoteList(store, name) ==
    {Summary(r.Destination, r.DestinationArn, r.IamRoleArn) :
        r \in {x \in store : x.AppMonitorName = name}}

\* A *ListRumMetricsDestinationsOutput: the nil pointer, or a page.
NilPage == [isNil |-> TRUE, Destinations |-> <<>>]
Page(dests) == [isNil |-> FALSE, Destinations |-> dests]

RECURSIVE SetToSeq(_)
SetToSeq(S) ==
    IF S = {} THEN <<>>
    ELSE LET x == CHOOSE y \in S : TRUE IN <<x>> \o SetToSeq(S \ {x})

RECURSIVE Chunk(_, _)
Chunk(seq, size) ==
    IF Len(seq) = 0 THEN <<>>
    ELSE IF Len(seq) <= size THEN <<Page(seq)>>
    ELSE <<Page(SubSeq(seq, 1, size))>> \o Chunk(SubSeq(seq, size + 1, Len(seq)), size)

\* The answer to the list call: an error, or the monitor's summaries in pages.
ListResponse(store, name, listErr, pageSize) ==
    [pages |-> IF listErr = NoErr THEN Chunk(SetToSeq(RemoteList(store, name)), pageSize)
               ELSE <<>>,
     err |-> listErr]

\* ------------------------------------------------------------------ lookup
\* The callback returning lastPage where the code returns !lastPage.
PageCallback_ReturnsLastPage(output, page, lastPage) ==
    IF page.isNil
    THEN [output |-> output, continue |-> lastPage]
    ELSE [output |-> output \o SelectSeq(page.Destinations, LAMBDA v : ~v.isNil),
          continue |-> lastPage]

\* The page callback: appends the page's non-nil entries, asks for the next page
\* unless this is the last one.
PageCallback(output, page, lastPage) ==
    IF page.isNil
    THEN [output |-> output, continue |-> ~lastPage]
    ELSE [output |-> output \o SelectSeq(page.Destinations, LAMBDA v : ~v.isNil),
          continue |-> ~lastPage]

\* ListRumMetricsDestinationsPages: the callback on each page in turn, until it
\* returns false.
RECURSIVE ListPages(_, _, _)
ListPages(pages, i, output) ==
    IF i > Len(pages) THEN output
    ELSE LET r == PageCallback(output, pages[i], i = Len(pages))
         IN IF r.continue THEN ListPages(pages, i + 1, r.output) ELSE r.output

\* The lookup without the check for more than one entry.
FindMetricsDestinationByName_FirstOfMany(resp) ==
    LET output == ListPages(resp.pages, 1, <<>>)
        err == resp.err
    IN IF ErrCodeEquals(err, ErrCodeResourceNotFoundException)
       THEN [dest |-> NilSummary, err |-> RetryNotFoundError(err)]
       ELSE IF err # NoErr
       THEN [dest |-> NilSummary, err |-> err]
       ELSE IF Len(output) = 0
       THEN [dest |-> NilSummary, err |-> NewEmptyResultError]
       ELSE [dest |-> output[1], err |-> NoErr]

FindMetricsDestinationByName(resp) ==
    LET output == ListPages(resp.pages, 1, <<>>)
        err == resp.err
    IN IF ErrCodeEquals(err, ErrCodeResourceNotFoundException)
       THEN [dest |-> NilSummary, err |-> RetryNotFoundError(err)]
       ELSE IF err # NoErr
       THEN [dest |-> NilSummary, err |-> err]
       ELSE IF Len(output) = 0
       THEN [dest |-> NilSummary, err |-> NewEmptyResultError]
       ELSE IF Len(output) > 1
       THEN [dest |-> NilSummary, err |-> NewTooManyResultsError(Len(output))]
       ELSE [dest |-> output[1], err |-> NoErr]

NoFind == [dest |-> NilSummary, err |-> NoErr]
NoResp == [pages |-> <<>>, err |-> NoErr]

\* ---------------------------------------------------------------- handlers
\* A handler's outcome: the resource data d = [id, attrs] it leaves, the store,
\* the diagnostics ("" when there is no error), the remote calls it made in
\* order, and the lookup it made.
\* Read taking every lookup error of a resource that is not new for absence.
resourceMetricsDestinationRead_AnyErrorAbsent(d, isNew, resp) ==
    LET f == FindMetricsDestinationByName(resp)
    IN IF ~isNew /\ f.err # NoErr
       THEN [d |-> [d EXCEPT !.id = Empty], diags |-> "", find |-> f]
       ELSE IF f.err # NoErr
       THEN [d |-> d, diags |-> "reading", find |-> f]
       ELSE [d |-> [d EXCEPT !.attrs =
                       [app_monitor_name |-> d.id,
                        destination |-> f.dest.Destination,
                        destination_arn |-> SetString(f.dest.DestinationArn),
                        iam_role_arn |-> SetString(f.dest.IamRoleArn)]],
             diags |-> "", find |-> f]

\* Read without the test of d.IsNewResource().
resourceMetricsDestinationRead_IgnoresIsNew(d, isNew, resp) ==
    LET f == FindMetricsDestinationByName(resp)
    IN IF NotFound(f.err)
       THEN [d |-> [d EXCEPT !.id = Empty], diags |-> "", find |-> f]
       ELSE IF f.err # NoErr
       THEN [d |-> d, diags |-> "reading", find |-> f]
       ELSE [d |-> [d EXCEPT !.attrs =
                       [app_monitor_name |-> d.id,
                        destination |-> f.dest.Destination,
                        destination_arn |-> SetString(f.dest.DestinationArn),
                        iam_role_arn |-> SetString(f.dest.IamRoleArn)]],
             diags |-> "", find |-> f]

resourceMetricsDestinationRead(d, isNew, resp) ==
    LET f == FindMetricsDestinationByName(resp)
    IN IF ~isNew /\ NotFound(f.err)
       THEN [d |-> [d EXCEPT !.id = Empty], diags |-> "", find |-> f]
       ELSE IF f.err # NoErr
       THEN [d |-> d, diags |-> "reading", find |-> f]
       ELSE [d |-> [d EXCEPT !.attrs =
                       [app_monitor_name |-> d.id,
                        destination |-> f.dest.Destination,
                        destination_arn |-> SetString(f.dest.DestinationArn),
                        iam_role_arn |-> SetString(f.dest.IamRoleArn)]],
             diags |-> "", find |-> f]

PutInput(attrs) ==
    [AppMonitorName |-> attrs.app_monitor_name,
     Destination |-> attrs.destination,
     DestinationArn |-> GetOkString(attrs.destination_arn),
     IamRoleArn |-> GetOkString(attrs.iam_role_arn)]

\* The put handler setting the identifier before the put call.
resourceMetricsDestinationPut_SetIdFirst(d, isNew, store, env) ==
    LET input == PutInput(d.attrs)
        name == d.attrs.app_monitor_name
    IN IF env.putErr # NoErr
       THEN [d |-> IF isNew THEN [d EXCEPT !.id = name] ELSE d, store |-> store,
             diags |-> "putting", calls |-> <<"put">>,
             find |-> NoFind, resp |-> NoResp, readDiags |-> ""]
       ELSE LET store2 == RemotePut(store, input)
                d2 == IF isNew THEN [d EXCEPT !.id = name] ELSE d
                resp == ListResponse(IF env.stale THEN store ELSE store2,
                                     d2.id, env.listErr, env.pageSize)
                r == resourceMetricsDestinationRead(d2, isNew, resp)
            IN [d |-> r.d, store |-> store2, diags |-> r.diags,
                calls |-> <<"put", "list">>, find |-> r.find, resp |-> resp,
                readDiags |-> r.diags]

\* The put handler dropping the diagnostics of its Read.
resourceMetricsDestinationPut_DropsReadDiags(d, isNew, store, env) ==
    LET input == PutInput(d.attrs)
        name == d.attrs.app_monitor_name
    IN IF env.putErr # NoErr
       THEN [d |-> d, store |-> store, diags |-> "putting", calls |-> <<"put">>,
             find |-> NoFind, resp |-> NoResp, readDiags |-> ""]
       ELSE LET store2 == RemotePut(store, input)
                d2 == IF isNew THEN [d EXCEPT !.id = name] ELSE d
                resp == ListResponse(IF env.stale THEN store ELSE store2,
                                     d2.id, env.listErr, env.pageSize)
                r == resourceMetricsDestinationRead(d2, isNew, resp)
            IN [d |-> r.d, store |-> store2, diags |-> "",
                calls |-> <<"put", "list">>, find |-> r.find, resp |-> resp,
                readDiags |-> r.diags]

\* The put handler setting the identifier without the test of d.IsNewResource().
resourceMetricsDestinationPut_AlwaysSetId(d, isNew, store, env) ==
    LET input == PutInput(d.attrs)
        name == d.attrs.app_monitor_name
    IN IF env.putErr # NoErr
       THEN [d |-> d, store |-> store, diags |-> "putting", calls |-> <<"put">>,
             find |-> NoFind, resp |-> NoResp, readDiags |-> ""]
       ELSE LET store2 == RemotePut(store, input)
                d2 == [d EXCEPT !.id = name]
                resp == ListResponse(IF env.stale THEN store ELSE store2,
                                     d2.id, env.listErr, env.pageSize)
                r == resourceMetricsDestinationRead(d2, isNew, resp)
            IN [d |-> r.d, store |-> store2, diags |-> r.diags,
                calls |-> <<"put", "list">>, find |-> r.find, resp |-> resp,
                readDiags |-> r.diags]

\* env: the remote's answers, [putErr, listErr, stale, pageSize]; stale: the list
\* call does not see the put yet.
resourceMetricsDestinationPut(d, isNew, store, env) ==
    LET input == PutInput(d.attrs)
        name == d.attrs.app_monitor_name
    IN IF env.putErr # NoErr
       THEN [d |-> d, store |-> store, diags |-> "putting", calls |-> <<"put">>,
             find |-> NoFind, resp |-> NoResp, readDiags |-> ""]
       ELSE LET store2 == RemotePut(store, input)
                d2 == IF isNew THEN [d EXCEPT !.id = name] ELSE d
                resp == ListResponse(IF env.stale THEN store ELSE store2,
                                     d2.id, env.listErr, env.pageSize)
                r == resourceMetricsDestinationRead(d2, isNew, resp)
            IN [d |-> r.d, store |-> store2, diags |-> r.diags,
                calls |-> <<"put", "list">>, find |-> r.find, resp |-> resp,
                readDiags |-> r.diags]

DeleteInput(d) ==
    [AppMonitorName |-> d.id,
     Destination |-> d.attrs.destination,
     DestinationArn |-> GetOkString(d.attrs.destination_arn)]

\* Delete without the test for resource-not-found.
resourceMetricsDestinationDelete_NotFoundIsError(d, store, delErr) ==
    LET input == DeleteInput(d)
        store2 == IF delErr = NoErr THEN RemoteDelete(store, input) ELSE store
    IN IF delErr # NoErr
       THEN [d |-> d, store |-> store2, diags |-> "deleting", calls |-> <<"delete">>]
       ELSE [d |-> d, store |-> store2, diags |-> "", calls |-> <<"delete">>]

resourceMetricsDestinationDelete(d, store, delErr) ==
    LET input == DeleteInput(d)
        store2 == IF delErr = NoErr THEN RemoteDelete(store, input) ELSE store
    IN IF ErrCodeEquals(delErr, ErrCodeResourceNotFoundException)
       THEN [d |-> d, store |-> store2, diags |-> "", calls |-> <<"delete">>]
       ELSE IF delErr # NoErr
       THEN [d |-> d, store |-> store2, diags |-> "deleting", calls |-> <<"delete">>]
       ELSE [d |-> d, store |-> store2, diags |-> "", calls |-> <<"delete">>]

\* ------------------------------------------------------------------- state
VARIABLES
    remote,   \* the remote service's destination records
    d,        \* the resource data: [id, attrs]
    last,     \* the last handler run: its operation, configuration, the remote's
              \* answers (errs, stale), its remote calls, its diagnostics, those of
              \* its Read, and again: it repeats the run before it (an Upsert of
              \* the same configuration, no remote call of either failing)
    resp,     \* the list response of the last lookup
    find,     \* the result of the last lookup
    destroyed \* Delete returned no error: the engine has dropped the object

vars == <<remote, d, last, resp, find, destroyed>>

NoLast ==
    [op |-> "none", cfg |-> NoAttrs, errs |-> <<>>, stale |-> FALSE,
     calls |-> <<>>, diags |-> "", readDiags |-> "", again |-> FALSE]

IsUpsert(l) == l.op \in {"Create", "Update"}
\* No remote call of the run failed, and its list call saw its put.
RemoteOk(l) == l.errs = <<NoErr, NoErr>> /\ ~l.stale
\* The run made the lookup.
LookedUp(l) == l.calls # <<>> /\ l.calls[Len(l.calls)] = "list"

Init ==
    /\ remote = {}
    /\ d = [id |-> Empty, attrs |-> NoAttrs]
    /\ last = NoLast
    /\ resp = NoResp
    /\ find = NoFind
    /\ destroyed = FALSE

Env(putErr, listErr, stale, pageSize) ==
    [putErr |-> putErr, listErr |-> listErr, stale |-> stale, pageSize |-> pageSize]

\* The remote's answers to one run of the put handler: the put fails, or the put
\* succeeds and the list call fails, or both succeed; the list answers in pages
\* of one entry or in one page.
PageSizes == {1, MaxRemote}

Envs ==
    {Env(e, NoErr, FALSE, 1) : e \in RemoteErrs \ {NoErr}}
    \cup {Env(NoErr, e, FALSE, 1) : e \in RemoteErrs \ {NoErr}}
    \cup {Env(NoErr, NoErr, st, ps) : st \in BOOLEAN, ps \in PageSizes}

Upsert(op, isNew, cfg, env) ==
    LET r == resourceMetricsDestinationPut([d EXCEPT !.attrs = cfg], isNew, remote, env)
    IN /\ Cardinality(r.store) <= MaxRemote
       /\ remote' = r.store
       /\ d' = r.d
       /\ resp' = r.resp
       /\ find' = r.find
       /\ destroyed' = FALSE
       /\ last' = [op |-> op, cfg |-> cfg,
                   errs |-> IF env.putErr # NoErr THEN <<env.putErr>>
                            ELSE <<env.putErr, env.listErr>>,
                   stale |-> env.stale,
                   calls |-> r.calls, diags |-> r.diags, readDiags |-> r.readDiags,
                   again |-> /\ IsUpsert(last) /\ RemoteOk(last) /\ last.cfg = cfg
                             /\ env.putErr = NoErr /\ env.listErr = NoErr /\ ~env.stale]

\* CreateWithoutTimeout: a new resource, no identifier yet.
Create ==
    /\ d.id = Empty
    /\ \E cfg \in Configs, env \in Envs : Upsert("Create", TRUE, cfg, env)

\* UpdateWithoutTimeout: the same handler on a resource that has an identifier.
\* The engine runs no update or delete on an object it has dropped; the one
\* handler still run on its identifier is a refresh.
Update ==
    /\ d.id # Empty
    /\ ~destroyed
    /\ \E cfg \in Configs, env \in Envs : Upsert("Update", FALSE, cfg, env)

\* ReadWithoutTimeout: the refresh of a resource that has an identifier.
Read ==
    /\ d.id # Empty
    /\ \E listErr \in RemoteErrs, pageSize \in PageSizes :
         LET rs == ListResponse(remote, d.id, listErr, pageSize)
             r == resourceMetricsDestinationRead(d, FALSE, rs)
         IN /\ listErr # NoErr => pageSize = 1
            /\ d' = r.d
            /\ resp' = rs
            /\ find' = r.find
            /\ last' = [op |-> "Read", cfg |-> NoAttrs, errs |-> <<listErr>>,
                        stale |-> FALSE, calls |-> <<"list">>,
                        diags |-> r.diags, readDiags |-> r.diags, again |-> FALSE]
            /\ destroyed' = (destroyed /\ r.d.id # Empty)
            /\ UNCHANGED remote

\* DeleteWithoutTimeout.  The service answers not-found only when it holds no
\* record the request identifies.
Delete ==
    /\ d.id # Empty
    /\ ~destroyed
    /\ \E delErr \in RemoteErrs :
         LET r == resourceMetricsDestinationDelete(d, remote, delErr)
         IN /\ ErrCodeEquals(delErr, ErrCodeResourceNotFoundException)
                 => RemoteDelete(remote, DeleteInput(d)) = remote
            /\ remote' = r.store
            /\ d' = r.d
            /\ resp' = NoResp
            /\ find' = NoFind
            /\ destroyed' = (r.diags = "")
            /\ last' = [op |-> "Delete", cfg |-> NoAttrs, errs |-> <<delErr>>,
                        stale |-> FALSE, calls |-> r.calls,
                        diags |-> r.diags, readDiags |-> "", again |-> FALSE]

Next == Create \/ Update \/ Read \/ Delete

Spec == Init /\ [][Next]_vars

\* ------------------------------------------------- the lookup on any response
\* The entries a page may hold: the nil pointer, or a summary.
LookupEntries ==
    {NilSummary} \cup {Summary(dk, Nil, Nil) : dk \in MetricDestination_Values}

RECURSIVE SeqsUpTo(_, _)
SeqsUpTo(S, n) ==
    IF n = 0 THEN {<<>>}
    ELSE LET shorter == SeqsUpTo(S, n - 1)
         IN shorter \cup {Append(q, x) : q \in {t \in shorter : Len(t) = n - 1}, x \in S}

LookupPages ==
    {NilPage} \cup {Page(q) : q \in SeqsUpTo(LookupEntries, MaxPageLen)}

\* The pages the callback is given, and the error the list call ends with.
LookupResponses ==
    [pages : SeqsUpTo(LookupPages, MaxPages), err : RemoteErrs]

InitLookup ==
    /\ remote = {}
    /\ d = [id |-> Empty, attrs |-> NoAttrs]
    /\ last = NoLast
    /\ resp \in LookupResponses
    /\ find = NoFind
    /\ destroyed = FALSE

Lookup ==
    /\ last.op = "none"
    /\ find' = FindMetricsDestinationByName(resp)
    /\ last' = [NoLast EXCEPT !.op = "Lookup", !.errs = <<resp.err>>, !.calls = <<"list">>]
    /\ UNCHANGED <<remote, d, resp, destroyed>>

NextLookup == Lookup

SpecLookup == InitLookup /\ [][NextLookup]_vars

\* ------------------------------------------------------------------ claims
\* The places of the non-nil entries of a response's pages.
EntryPlaces(pages) ==
    UNION {{<<i, j>> : j \in {k \in 1..Len(pages[i].Destinations) :
                                  ~pages[i].Destinations[k].isNil}} :
           i \in {h \in 1..Len(pages) : ~pages[h].isNil}}

\* C1: when the list call does not fail, the lookup decides on the non-nil
\* entries of all pages: none gives the empty-result (not-found) error, one gives
\* that entry and no error, n > 1 gives the too-many-results error carrying n.
C1_LookupPolicy ==
    (last.op = "Lookup" /\ resp.err = NoErr) =>
        LET places == EntryPlaces(resp.pages)
            n == Cardinality(places)
        IN /\ n = 0 => find = [dest |-> NilSummary, err |-> NewEmptyResultError]
           /\ n = 1 => /\ find.err = NoErr
                       /\ \A pl \in places :
                            find.dest = resp.pages[pl[1]].Destinations[pl[2]]
           /\ n > 1 => find = [dest |-> NilSummary, err |-> NewTooManyResultsError(n)]

\* A lookup over two pages, a nil entry among them, one entry in each page.
C1_Witness ==
    /\ last.op = "Lookup"
    /\ resp.err = NoErr
    /\ Len(resp.pages) = 2
    /\ \A i \in 1..2 : \E pl \in EntryPlaces(resp.pages) : pl[1] = i
    /\ \E j \in 1..Len(resp.pages[1].Destinations) : resp.pages[1].Destinations[j].isNil
    /\ find.err = NewTooManyResultsError(2)

\* C2: after an Upsert none of whose remote calls failed, the handler returned
\* no error, the identifier is set and the attributes read back are those of the
\* configuration.
C2_RoundTrip ==
    (IsUpsert(last) /\ RemoteOk(last)) =>
        /\ last.diags = ""
        /\ d.id # Empty
        /\ d.attrs = last.cfg

\* C3: an Upsert that repeats the Upsert before it (same configuration, no
\* remote call of either failing) leaves the identifier, the attributes, the
\* remote records, the lookup's result and the diagnostics as they were.
C3_Idempotent ==
    [][(/\ IsUpsert(last) /\ RemoteOk(last)
        /\ IsUpsert(last') /\ RemoteOk(last')
        /\ last'.cfg = last.cfg)
       => (/\ last'.again
           /\ d' = d
           /\ remote' = remote
           /\ find' = find
           /\ last'.diags = last.diags)]_vars

\* A repeated Upsert that read the record back.
C3_Witness ==
    /\ last.again
    /\ last.op = "Update"
    /\ last.diags = ""
    /\ d.attrs = last.cfg
    /\ d.attrs.destination_arn # Empty

\* C4: the Read that follows a Delete that returned no error, its list call
\* answering or reporting not-found, clears the identifier and returns no error.
C4_DeleteThenRead ==
    [][(/\ last.op = "Delete" /\ last.diags = ""
        /\ last'.op = "Read"
        /\ last'.errs[1] \in {NoErr, AwsErr(ErrCodeResourceNotFoundException)})
       => (d'.id = Empty /\ last'.diags = "")]_vars

\* C5: Delete makes one remote call, the delete; it returns no error exactly
\* when the call succeeded or reported resource-not-found.
C5_Delete ==
    last.op = "Delete" =>
        /\ last.calls = <<"delete">>
        /\ last.diags = "" <=>
              (last.errs[1] = NoErr
               \/ ErrCodeEquals(last.errs[1], ErrCodeResourceNotFoundException))
        /\ last.diags # "" => last.diags = "deleting"

\* A Delete the remote answered with resource-not-found.
C5_Witness ==
    /\ last.op = "Delete"
    /\ ErrCodeEquals(last.errs[1], ErrCodeResourceNotFoundException)
    /\ last.diags = ""

\* C6: when the lookup reports not-found (no entries, or the service's
\* resource-not-found), a Read of a resource that is not new clears the identifier
\* and returns no error, and the Read of a new resource returns an error and
\* keeps the identifier.
C6_NotFound ==
    (LookedUp(last) /\ last.op # "Lookup" /\ NotFound(find.err)) =>
        /\ last.op \in {"Read", "Update"} => (d.id = Empty /\ last.diags = "")
        /\ last.op = "Create" =>
              (last.diags = "reading" /\ d.id = last.cfg.app_monitor_name)

\* A creation whose list call did not see the put: the lookup found no entries.
C6_Witness ==
    /\ last.op = "Create"
    /\ find.err = NewEmptyResultError
    /\ last.diags = "reading"

\* C7: when the list call answers with more than one record, Read returns an
\* error, the identifier is not cleared and no record populates the attributes.
C7_Ambiguous ==
    [][(/\ LookedUp(last') /\ last'.op # "Lookup"
        /\ resp'.err = NoErr
        /\ Cardinality(EntryPlaces(resp'.pages)) > 1)
       => (/\ find'.err = NewTooManyResultsError(Cardinality(EntryPlaces(resp'.pages)))
           /\ last'.diags = "reading"
           /\ d'.id # Empty
           /\ last'.op = "Read" => d' = d
           /\ last'.op = "Update" => (d'.id = d.id /\ d'.attrs = last'.cfg)
           /\ last'.op = "Create" =>
                 (d'.id = last'.cfg.app_monitor_name /\ d'.attrs = last'.cfg))]_vars

\* A refresh that found two records.
C7_Witness ==
    /\ last.op = "Read"
    /\ Cardinality(EntryPlaces(resp.pages)) = 2
    /\ find.err = NewTooManyResultsError(2)
    /\ last.diags = "reading"
    /\ d.id # Empty

\* C8 as stated: an Upsert one of whose remote calls failed returns an error, and
\* a new resource is then left without identifier.
C8_Original ==
    (IsUpsert(last) /\ \E i \in 1..Len(last.errs) : last.errs[i] # NoErr) =>
        /\ last.diags # ""
        /\ last.op = "Create" => d.id = Empty

\* C8 as amended: a failed put makes Upsert return an error after that one call
\* and leaves a new resource without identifier; once the put succeeded a new
\* resource has the identifier, also when the Read that follows returns an
\* error; a failed list call makes Upsert return an error, except the service's
\* not-found on a resource that is not new.
C8_PutFailure ==
    IsUpsert(last) =>
        /\ last.errs[1] # NoErr =>
              /\ last.diags = "putting"
              /\ last.calls = <<"put">>
              /\ last.op = "Create" => d.id = Empty
        /\ (last.op = "Create" /\ last.errs[1] = NoErr) =>
              d.id = last.cfg.app_monitor_name
        /\ (last.op = "Create" /\ last.diags # "") =>
              (d.id = Empty <=> last.errs[1] # NoErr)
        /\ (last.errs[1] = NoErr /\ last.errs[2] # NoErr) =>
              (last.diags = "" <=>
                  (last.op = "Update"
                   /\ ErrCodeEquals(last.errs[2], ErrCodeResourceNotFoundException)))

\* A creation whose put succeeded and whose list call was cancelled: an error,
\* and the identifier is assigned.
C8_Witness ==
    /\ last.op = "Create"
    /\ last.errs = <<NoErr, AwsErr("RequestCanceled")>>
    /\ last.diags = "reading"
    /\ d.id = last.cfg.app_monitor_name

\* C9: an Upsert makes one put call, first; no lookup follows a failed put; the
\* lookup follows a put that succeeded, and Upsert returns Read's diagnostics.
C9_PutThenRead ==
    IsUpsert(last) =>
        /\ last.calls[1] = "put"
        /\ Cardinality({i \in 1..Len(last.calls) : last.calls[i] = "put"}) = 1
        /\ last.errs[1] # NoErr => last.calls = <<"put">>
        /\ last.errs[1] = NoErr =>
              /\ last.calls = <<"put", "list">>
              /\ last.diags = last.readDiags
              /\ find.err \notin {NoErr} =>
                    (last.diags = "" <=> (last.op = "Update" /\ NotFound(find.err)))

\* An Upsert whose put succeeded and whose Read returned an error.
C9_Witness ==
    /\ IsUpsert(last)
    /\ last.calls = <<"put", "list">>
    /\ last.readDiags = "reading"
    /\ last.diags = "reading"

\* The identifier changes only by a creation's put succeeding (to the
\* configuration's monitor name) and by a not-found lookup of a resource that is
\* not new (to ""), and it changes whenever one of the two happens.
IdChanges ==
    /\ d'.id # d.id =>
          \/ /\ last'.op = "Create"
             /\ last'.errs[1] = NoErr
             /\ d'.id = last'.cfg.app_monitor_name
          \/ /\ last'.op \in {"Read", "Update"}
             /\ LookedUp(last')
             /\ NotFound(find'.err)
             /\ d'.id = Empty
    /\ (last'.op = "Create" /\ last'.errs[1] = NoErr) =>
          d'.id = last'.cfg.app_monitor_name
    /\ (last'.op \in {"Read", "Update"} /\ LookedUp(last') /\ NotFound(find'.err)) =>
          d'.id = Empty

\* C10 as stated: the two ways above, and an Upsert of a resource that has an
\* identifier never changes it.
C10_Original ==
    [][IdChanges /\ (last'.op = "Update" => d'.id = d.id)]_vars

\* C10 as amended: the two ways above; the Read inside an Upsert of a resource
\* that has an identifier is such a Read, so that Upsert never assigns another
\* identifier but clears it on a not-found lookup; Delete, a failed put and a
\* list call failing otherwise leave it unchanged.
C10_IdFrame ==
    [][/\ IdChanges
       /\ last'.op = "Update" => d'.id \in {d.id, Empty}
       /\ last'.op = "Delete" => d'.id = d.id]_vars

\* An Upsert of a resource that had an identifier cleared it.
C10_Witness ==
    /\ last.op = "Update"
    /\ last.errs[1] = NoErr
    /\ NotFound(find.err)
    /\ d.id = Empty

====
